---- MODULE Spec2Model ----
(***************************************************************************)
(* polars-fastavro: the Avro -> polars schema translator (DataTypeParser)  *)
(* and the lazy scan closure of scan_avro (get_schema / source_generator), *)
(* modelled from src/polars_fastavro/_scan.py.                             *)
(***************************************************************************)
EXTENDS Integers, Sequences, FiniteSets, TLC

(***************************************************************************)
(* Bounds of the model.                                                    *)
(***************************************************************************)
MaxFields == 2
MaxSources == 3
MaxRows == 2
FewRows == 1
MaxBatch == 2
MaxLimit == 3
MaxCalls == 2
MaxSchemaCalls == 2
MaxEntries == 2

\* Python's None, where a value may be absent: the value that is there is
\* Some(x), so that no value, the string "None" included, is taken for None
None == [some |-> FALSE]

Nothing == None

Some(x) == [some |-> TRUE, v |-> x]

(***************************************************************************)
(* Avro schema nodes, as the decoder hands them over (JSON values).        *)
(*   a string            [k |-> "name", name]                              *)
(*   a list              [k |-> "list", items]                             *)
(*   a mapping           [k |-> "obj", keys, type, logicalType, items,     *)
(*                        fields, symbols]; keys is the set of keys the    *)
(*                        mapping holds, a key it lacks has a fixed filler *)
(***************************************************************************)
Name(n) == [k |-> "name", name |-> n]

List(xs) == [k |-> "list", items |-> xs]

NoNode == Name("")

Obj(t) ==
  [k |-> "obj", keys |-> {"type"}, type |-> t, logicalType |-> "",
   items |-> NoNode, fields |-> <<>>, symbols |-> <<>>]

ObjLogical(t, l) ==
  [Obj(t) EXCEPT !.keys = {"type", "logicalType"}, !.logicalType = l]

ObjArray(inner) ==
  [Obj("array") EXCEPT !.keys = {"type", "items"}, !.items = inner]

ObjEnum(symbs) ==
  [Obj("enum") EXCEPT !.keys = {"type", "name", "symbols"}, !.symbols = symbs]

ObjRecord(fs) ==
  [Obj("record") EXCEPT !.keys = {"type", "name", "fields"}, !.fields = fs]

\* one entry of a record's "fields" list
Field(n, t) == [keys |-> {"name", "type"}, name |-> n, type |-> t]

FieldNoType(n) == [keys |-> {"name"}, name |-> n, type |-> NoNode]

(***************************************************************************)
(* polars data types and the outcome of a translation: a value or the      *)
(* exception raised.                                                       *)
(***************************************************************************)
Scalar(t) == [t |-> t]

Datetime(unit, tz) == [t |-> "Datetime", unit |-> unit, tz |-> tz]

Ok(dt) == [ok |-> TRUE, dtype |-> dt]

Err(e) == [ok |-> FALSE, err |-> e]

ErrLogical == "ValueError: tried to parse without logical-type parsing"

ErrUnhandled == "NotImplementedError: unhandled datatype"

ErrField == "RuntimeError: invalid field definition"

ErrTopLevel == "NotImplementedError: top-level schema must be a record schema"

\* dict(pairs) / pl.Schema(pairs): a later pair of the same name replaces the
\* value and keeps the position of the first
RECURSIVE DictOf(_, _)
DictOf(pairs, acc) ==
  IF pairs = <<>> THEN acc
  ELSE LET p == Head(pairs)
           hit == {i \in 1..Len(acc) : acc[i][1] = p[1]}
       IN  IF hit = {}
           THEN DictOf(Tail(pairs), Append(acc, p))
           ELSE DictOf(Tail(pairs),
                       [i \in 1..Len(acc) |-> IF i \in hit THEN p ELSE acc[i]])

\* unwrap_nullable without the pattern [other, "null"]
unwrap_nullable_null_first(schema) ==
  IF schema.k = "list"
  THEN CASE Len(schema.items) = 2 /\ schema.items[1] = Name("null") -> schema.items[2]
         [] Len(schema.items) = 1 -> schema.items[1]
         [] OTHER -> schema
  ELSE schema

unwrap_nullable(schema) ==
  IF schema.k = "list"
  THEN CASE Len(schema.items) = 2 /\ schema.items[1] = Name("null") -> schema.items[2]
         [] Len(schema.items) = 2 /\ schema.items[2] = Name("null") -> schema.items[1]
         [] Len(schema.items) = 1 -> schema.items[1]
         [] OTHER -> schema
  ELSE schema

IsObjOf(u, t) == u.k = "obj" /\ "type" \in u.keys /\ u.type = t

\* IsLogical with the logical type looked at alone
IsLogical_any_type(u, t, l) ==
  u.k = "obj" /\ {"type", "logicalType"} \subseteq u.keys /\ u.logicalType = l

IsLogical(u, t, l) ==
  IsObjOf(u, t) /\ "logicalType" \in u.keys /\ u.logicalType = l

RECURSIVE parse_dtype(_, _)
RECURSIVE parse_fields(_, _, _)

\* the loop over a record's fields (lines 78-83 and 92-97): the pairs parsed
\* so far, or the first exception
parse_fields(parser, fields, parsed) ==
  IF fields = <<>> THEN [ok |-> TRUE, pairs |-> parsed]
  ELSE LET field == Head(fields) IN
       IF {"name", "type"} \subseteq field.keys
       THEN LET r == parse_dtype(parser, field.type) IN
            IF r.ok
            THEN parse_fields(parser, Tail(fields),
                              Append(parsed, <<field.name, r.dtype>>))
            ELSE r
       ELSE Err(ErrField)

parse_dtype(parser, dtype) ==
  LET u == unwrap_nullable(dtype) IN
  CASE IsLogical(u, "long", "timestamp-millis") -> Ok(Datetime("ms", Some("UTC")))
    [] IsLogical(u, "long", "timestamp-micros") -> Ok(Datetime("us", Some("UTC")))
    [] IsLogical(u, "long", "timestamp-nanos") -> Ok(Datetime("ns", Some("UTC")))
    [] IsLogical(u, "long", "local-timestamp-millis") -> Ok(Datetime("ms", None))
    [] IsLogical(u, "long", "local-timestamp-micros") -> Ok(Datetime("us", None))
    [] IsLogical(u, "long", "local-timestamp-nanos") -> Ok(Datetime("ns", None))
    [] IsLogical(u, "int", "date") -> Ok(Scalar("Date"))
    [] /\ u.k = "obj" /\ {"type", "logicalType"} \subseteq u.keys
       /\ u.type \in {"int", "long", "bytes", "string"}
       /\ ~parser.parse_logical_types -> Err(ErrLogical)
    [] u = Name("null") -> Ok(Scalar("Null"))
    [] u = Name("boolean") -> Ok(Scalar("Boolean"))
    [] u = Name("int") \/ IsObjOf(u, "int") -> Ok(Scalar("Int32"))
    [] u = Name("long") \/ IsObjOf(u, "long") -> Ok(Scalar("Int64"))
    [] u = Name("float") -> Ok(Scalar("Float32"))
    [] u = Name("double") -> Ok(Scalar("Float64"))
    [] IsObjOf(u, "enum") /\ "symbols" \in u.keys ->
         Ok([t |-> "Enum", categories |-> u.symbols])
    [] u = Name("bytes") \/ IsObjOf(u, "bytes") -> Ok(Scalar("Binary"))
    [] u = Name("string") \/ IsObjOf(u, "string") -> Ok(Scalar("String"))
    [] IsObjOf(u, "array") /\ "items" \in u.keys ->
         LET r == parse_dtype(parser, u.items) IN
         IF r.ok THEN Ok([t |-> "List", inner |-> r.dtype]) ELSE r
    [] IsObjOf(u, "record") /\ "fields" \in u.keys ->
         LET r == parse_fields(parser, u.fields, <<>>) IN
         IF r.ok THEN Ok([t |-> "Struct", fields |-> DictOf(r.pairs, <<>>)]) ELSE r
    [] OTHER -> Err(ErrUnhandled)

\* parse_schema with the wrap name looked at before the record shape
parse_schema_wrap_first(parser, schema) ==
  CASE parser.single_col_name # None ->
         LET r == parse_dtype(parser, schema) IN
         IF r.ok
         THEN [ok |-> TRUE, schema |-> <<<<parser.single_col_name.v, r.dtype>>>>,
               singleton |-> TRUE]
         ELSE r
    [] IsObjOf(schema, "record") /\ "fields" \in schema.keys ->
         LET r == parse_fields(parser, schema.fields, <<>>) IN
         IF r.ok
         THEN [ok |-> TRUE, schema |-> DictOf(r.pairs, <<>>), singleton |-> FALSE]
         ELSE r
    [] OTHER -> Err(ErrTopLevel)

parse_schema(parser, schema) ==
  CASE IsObjOf(schema, "record") /\ "fields" \in schema.keys ->
         LET r == parse_fields(parser, schema.fields, <<>>) IN
         IF r.ok
         THEN [ok |-> TRUE, schema |-> DictOf(r.pairs, <<>>), singleton |-> FALSE]
         ELSE r
    [] parser.single_col_name # None ->
         LET r == parse_dtype(parser, schema) IN
         IF r.ok
         THEN [ok |-> TRUE, schema |-> <<<<parser.single_col_name.v, r.dtype>>>>,
               singleton |-> TRUE]
         ELSE r
    [] OTHER -> Err(ErrTopLevel)

DataTypeParser(plt, scn) == [parse_logical_types |-> plt, single_col_name |-> scn]

(***************************************************************************)
(* The scan closure.                                                       *)
(*   sources   the files the source argument names, in opening order, each *)
(*             [doc: its writer schema, nrows: the rows it holds]          *)
(*   kwargs    scan_avro's keyword arguments                               *)
(*   queries   the arguments of the engine's source_generator calls, in    *)
(*             call order                                                  *)
(*   schema, singleton, opened_readers   the closure's nonlocal cells     *)
(*   gens      the generator objects the source_generator calls returned   *)
(*   ncalls    the number of source_generator calls made                   *)
(*   schema_calls, schema_ret   the get_schema calls made, and what the    *)
(*             last one returned or raised                                 *)
(*   held      for each get_schema call, the reader chain the exception it *)
(*             raised keeps alive until the caller lets go of it           *)
(*   file_opens   how often open() ran on each file                        *)
(* for the translator on its own: doc, parser, result;                     *)
(* and for the expansion of the sources argument into the files to open:   *)
(*   argument  the sources argument: one entry or a list of entries        *)
(*   glob      the glob keyword                                            *)
(*   listing   what glob.glob returns for each pattern, in the order the   *)
(*             file system lists the matches                               *)
(*   environ   the home directories expanduser looks up                    *)
(*   opener    the open_sources generator over them                        *)
(***************************************************************************)
VARIABLES sources, kwargs, queries, schema, singleton, opened_readers,
          gens, ncalls, schema_calls, schema_ret, held, file_opens,
          doc, parser, result,
          argument, glob, listing, environ, opener

scan_vars == <<sources, kwargs, queries, schema, singleton, opened_readers,
               gens, ncalls, schema_calls, schema_ret, held, file_opens>>

parse_vars == <<doc, parser, result>>

glob_vars == <<argument, glob, listing, environ, opener>>

vars == <<scan_vars, parse_vars, glob_vars>>

ErrEmpty == "ValueError: sources were empty"

ErrMismatch == "RuntimeError: schema of source didn't match schema of source 0"

ErrNoSchema == "RuntimeError: internal error: schema not defined when it needed to be"

ErrReadersNoSchema == "RuntimeError: internal error: schema not set but readers is"

ErrAssert == "AssertionError"

NoErr == [kind |-> "", index |-> 0]

Raised(kind, index) == [kind |-> kind, index |-> index]

\* The reader chain iter_readers returns: the rest() generator over the
\* open_sources generator and the reader being iterated.
\*   cur, pos   the file whose reader is current and the rows pulled from it
\*   open       the files open_sources holds open
\*   state      live | exhausted | raised | closed
\*   schema, singleton   iter_readers' locals, which rest() compares with
\*   log        the open, close and pull events of the chain, in order
NoChain ==
  [cur |-> 0, pos |-> 0, open |-> {}, state |-> "none", schema |-> <<>>,
   singleton |-> FALSE, log |-> <<>>]

\* the decoded record j of file i
Rec(i, j) == [src |-> i, idx |-> j, wrapped |-> FALSE]

OpenCount(log, i) == Cardinality({n \in 1..Len(log) : log[n] = <<"open", i>>})

Pulled(log) == Cardinality({n \in 1..Len(log) : log[n][1] = "pull"})

\* open_sources with no with block: the file it had yielded stays open
open_sources_keep_open(srcs, c) ==
  IF c.cur >= Len(srcs)
  THEN [c EXCEPT !.state = "exhausted"]
  ELSE [c EXCEPT !.cur = c.cur + 1, !.pos = 0, !.state = "live",
                 !.open = @ \cup {c.cur + 1},
                 !.log = Append(@, <<"open", c.cur + 1>>)]

\* one resumption of the open_sources generator: the with block of the file
\* it had yielded is left (the file is closed), and the next file is opened
\* and yielded, or the generator ends
open_sources(srcs, c) ==
  LET left == [c EXCEPT !.open = @ \ {c.cur},
                        !.log = IF c.cur \in c.open
                                THEN Append(@, <<"close", c.cur>>) ELSE @]
  IN  IF c.cur >= Len(srcs)
      THEN [left EXCEPT !.state = "exhausted"]
      ELSE [left EXCEPT !.cur = c.cur + 1, !.pos = 0, !.state = "live",
                        !.open = @ \cup {c.cur + 1},
                        !.log = Append(@, <<"open", c.cur + 1>>)]

\* the generator objects of a chain are finalized: open_sources is closed
\* inside its with block, which closes the file it holds
Finalize(c) ==
  [c EXCEPT !.open = {}, !.state = IF c.state = "none" THEN "none" ELSE "closed",
            !.log = IF c.cur \in c.open THEN Append(@, <<"close", c.cur>>) ELSE @]

\* lines 146-161: the first source is open; its schema is parsed and the
\* chain over it and the rest is returned, unless the parse raised: the
\* exception then holds the frame of iter_readers, and with it the opener
\* and the open file
iter_parsed(first, r) ==
  IF r.ok
  THEN [ok |-> TRUE, schema |-> r.schema, singleton |-> r.singleton,
        readers |-> [first EXCEPT !.schema = r.schema, !.singleton = r.singleton]]
  ELSE [ok |-> FALSE, err |-> r.err, readers |-> first]

\* iter_first with every later source compared with the first up front
iter_first_eager(srcs, kw, first) ==
  IF first.state = "exhausted"
  THEN [ok |-> FALSE, err |-> ErrEmpty, readers |-> first]
  ELSE IF \E k \in 2..Len(srcs) :
            parse_schema(DataTypeParser(kw.convert_logical_types, kw.single_col_name),
                         srcs[k].doc)
              # parse_schema(DataTypeParser(kw.convert_logical_types,
                                            kw.single_col_name), srcs[1].doc)
  THEN [ok |-> FALSE, err |-> ErrMismatch, readers |-> first]
  ELSE iter_parsed(first,
         parse_schema(DataTypeParser(kw.convert_logical_types, kw.single_col_name),
                      srcs[1].doc))

\* lines 139-147, given what next(source_iter, None) left of the opener
iter_first(srcs, kw, first) ==
  IF first.state = "exhausted"
  THEN [ok |-> FALSE, err |-> ErrEmpty, readers |-> first]
  ELSE iter_parsed(first,
         parse_schema(DataTypeParser(kw.convert_logical_types, kw.single_col_name),
                      srcs[1].doc))

iter_readers(srcs, kw) == iter_first(srcs, kw, open_sources(srcs, NoChain))

RECURSIVE next_record(_, _, _)
RECURSIVE rest(_, _, _, _)
RECURSIVE rest_check(_, _, _, _, _)

\* rest_check with the sources counted from 1
rest_check_from_one(srcs, kw, c, n, r) ==
  IF ~r.ok
  THEN [kind |-> "raise", err |-> Raised(r.err, n.cur),
        chain |-> [n EXCEPT !.state = "raised"]]
  ELSE IF r.schema = c.schema /\ c.singleton = r.singleton
  THEN next_record(srcs, kw, n)
  ELSE [kind |-> "raise", err |-> Raised(ErrMismatch, n.cur),
        chain |-> [n EXCEPT !.state = "raised"]]

\* rest_check without the comparison of line 154
rest_check_no_compare(srcs, kw, c, n, r) ==
  IF ~r.ok
  THEN [kind |-> "raise", err |-> Raised(r.err, n.cur - 1),
        chain |-> [n EXCEPT !.state = "raised"]]
  ELSE next_record(srcs, kw, n)

\* lines 153-159: the schema r of the source just opened is compared with the
\* first one's; c is the chain before the source was opened, n after
rest_check(srcs, kw, c, n, r) ==
  IF ~r.ok
  THEN [kind |-> "raise", err |-> Raised(r.err, n.cur - 1),
        chain |-> [n EXCEPT !.state = "raised"]]
  ELSE IF r.schema = c.schema /\ c.singleton = r.singleton
  THEN next_record(srcs, kw, n)
  ELSE [kind |-> "raise", err |-> Raised(ErrMismatch, n.cur - 1),
        chain |-> [n EXCEPT !.state = "raised"]]

\* lines 151-152: rest() takes the next source of the opener, if any
rest(srcs, kw, c, n) ==
  IF n.state = "exhausted"
  THEN [kind |-> "end", chain |-> n]
  ELSE rest_check(srcs, kw, c, n,
         parse_schema(DataTypeParser(kw.convert_logical_types, kw.single_col_name),
                      srcs[n.cur].doc))

\* next(records): the next record of the flattened sequence (line 244), which
\* runs rest() on to the next source when the current reader is exhausted
next_record(srcs, kw, c) ==
  IF c.state # "live"
  THEN [kind |-> "end", chain |-> c]
  ELSE IF c.pos < srcs[c.cur].nrows
  THEN [kind |-> "rec", rec |-> Rec(c.cur, c.pos + 1),
        chain |-> [c EXCEPT !.pos = @ + 1,
                            !.log = Append(@, <<"pull", c.cur, c.pos + 1>>)]]
  ELSE rest(srcs, kw, c, open_sources(srcs, c))

RECURSIVE chunk(_, _, _, _, _)
RECURSIVE chunk_append(_, _, _, _, _)

\* chunk_append without the trailing "if chunk: yield chunk"
chunk_append_drop_tail(srcs, kw, acc, chunk_size, n) ==
  CASE n.kind = "raise" -> n
    [] n.kind = "end" -> n
    [] OTHER ->
         IF Len(acc) + 1 = chunk_size
         THEN [kind |-> "chunk", chunk |-> Append(acc, n.rec), chain |-> n.chain]
         ELSE chunk(srcs, kw, n.chain, Append(acc, n.rec), chunk_size)

\* lines 168-173, given the outcome n of next(it): the value is appended and
\* a full chunk yielded; at the end what was gathered is yielded, if anything
chunk_append(srcs, kw, acc, chunk_size, n) ==
  CASE n.kind = "raise" -> n
    [] n.kind = "end" ->
         IF acc # <<>> THEN [kind |-> "chunk", chunk |-> acc, chain |-> n.chain]
         ELSE n
    [] OTHER ->
         IF Len(acc) + 1 = chunk_size
         THEN [kind |-> "chunk", chunk |-> Append(acc, n.rec), chain |-> n.chain]
         ELSE chunk(srcs, kw, n.chain, Append(acc, n.rec), chunk_size)

\* one resumption of the chunk generator past its assert: the next chunk, the
\* end of the sequence, or the exception the sequence raised
chunk(srcs, kw, c, acc, chunk_size) ==
  chunk_append(srcs, kw, acc, chunk_size, next_record(srcs, kw, c))

(***************************************************************************)
(* source_generator.                                                       *)
(***************************************************************************)
\* an argument tuple of source_generator
Args(with_columns, predicate, n_rows, batch_size) ==
  [with_columns |-> with_columns, predicate |-> predicate, n_rows |-> n_rows,
   batch_size |-> batch_size]

\* a generator object of source_generator:
\*   pc        none | created | suspended (at a yield) | done | failed | closed
\*   n_rows    its local n_rows, the rows still to yield
\*   readers   its local readers
\*   retained  whether readers is the iterator get_schema had retained
\*   out       the frames it has yielded
\*   err       the exception it raised
NoGen ==
  [pc |-> "none", n_rows |-> Nothing, readers |-> NoChain, retained |-> FALSE,
   out |-> <<>>, err |-> NoErr]

Names(sch) == [i \in 1..Len(sch) |-> sch[i][1]]

\* the predicates the engine pushes down, over the decoded record
Holds(predicate, rec) ==
  CASE predicate = Some("idx_is_odd") -> rec.idx % 2 = 1
    [] OTHER -> TRUE

Filter(predicate, rows) == SelectSeq(rows, LAMBDA r : Holds(predicate, r))

\* lines 249-254: the frame of a batch, projected and filtered
collect(batch, sch, q) ==
  [columns |-> IF q.with_columns.some THEN q.with_columns.v ELSE Names(sch),
   rows |-> IF q.predicate # None THEN Filter(q.predicate, batch) ELSE batch]

Head_(frame, n) == [frame EXCEPT !.rows = SubSeq(@, 1, IF n < Len(@) THEN n ELSE Len(@))]

\* batch_size or def_batch_size
ChunkSize(q, kw) ==
  IF q.batch_size.some /\ q.batch_size.v # 0 THEN q.batch_size.v ELSE kw.batch_size

\* line 246: a singleton schema wraps each record under single_col_name
Wrap(single, batch) ==
  IF single THEN [i \in 1..Len(batch) |-> [batch[i] EXCEPT !.wrapped = TRUE]]
  ELSE batch

\* lines 255-260: the frame is yielded, cut to the rows still wanted
yield_frame(g, chain, frame) ==
  IF ~g.n_rows.some
  THEN [g EXCEPT !.pc = "suspended", !.readers = chain, !.out = Append(@, frame)]
  ELSE [g EXCEPT !.pc = "suspended", !.readers = chain,
                 !.n_rows = Some(g.n_rows.v - Len(Head_(frame, g.n_rows.v).rows)),
                 !.out = Append(@, Head_(frame, g.n_rows.v))]

\* produced with the batch cut to the rows still wanted before the predicate
\* is applied
produced_limit_first(sch, single, q, g, n) ==
  CASE n.kind = "raise" ->
         [g EXCEPT !.pc = "failed", !.err = n.err, !.readers = n.chain]
    [] n.kind = "end" ->
         [g EXCEPT !.pc = "done", !.readers = Finalize(n.chain)]
    [] OTHER ->
         yield_frame(g, n.chain,
           collect(IF g.n_rows.some /\ g.n_rows.v < Len(n.chunk)
                   THEN SubSeq(Wrap(single, n.chunk), 1, g.n_rows.v)
                   ELSE Wrap(single, n.chunk), sch, q))

\* the for loop of lines 248-262 given the outcome n of next(chunk(...)); an
\* exception leaves the generator with its frames, and so the chain and the
\* file it has open, kept by the traceback
produced(sch, single, q, g, n) ==
  CASE n.kind = "raise" ->
         [g EXCEPT !.pc = "failed", !.err = n.err, !.readers = n.chain]
    [] n.kind = "end" ->
         [g EXCEPT !.pc = "done", !.readers = Finalize(n.chain)]
    [] OTHER -> yield_frame(g, n.chain, collect(Wrap(single, n.chunk), sch, q))

\* one round of the for loop of lines 248-262, from the pull of the next chunk
\* to the yield of its frame, the end of the loop or an exception
produce(srcs, kw, sch, single, q, g) ==
  produced(sch, single, q, g, chunk(srcs, kw, g.readers, <<>>, ChunkSize(q, kw)))

\* take_readers over handles that are not opened anew: the first is where
\* the pass before left it, at its end
take_readers_at_end(srcs, kw, retained) ==
  IF retained.some THEN [ok |-> TRUE, readers |-> retained.v]
  ELSE [iter_readers(srcs, kw) EXCEPT !.readers.pos = srcs[1].nrows]

\* lines 231-241: readers is the retained iterator, or a chain opened anew
take_readers(srcs, kw, retained) ==
  IF retained.some THEN [ok |-> TRUE, readers |-> retained.v]
  ELSE iter_readers(srcs, kw)

\* lines 244-248, with readers taken: the assert of chunk, then the loop
started(srcs, kw, sch, single, q, g, it) ==
  IF ~it.ok
  THEN [g EXCEPT !.pc = "failed", !.err = Raised(it.err, 0), !.readers = it.readers]
  ELSE IF ChunkSize(q, kw) <= 0
  THEN [g EXCEPT !.pc = "failed", !.err = Raised(ErrAssert, 0),
                 !.readers = it.readers]
  ELSE produce(srcs, kw, sch, single, q, [g EXCEPT !.readers = it.readers])

\* start without the check of lines 227-230: a call before the schema phase
\* opens the sources and takes the schema from them
start_reopen(srcs, kw, sch, single, retained, q, g) ==
  IF ~sch.some \/ ~single.some
  THEN started(srcs, kw, <<>>, FALSE, q, g, iter_readers(srcs, kw))
  ELSE started(srcs, kw, sch.v, single.v, q, [g EXCEPT !.retained = retained.some],
               take_readers(srcs, kw, retained))

\* lines 227-248: the body of source_generator up to the first yield
start(srcs, kw, sch, single, retained, q, g) ==
  IF ~sch.some \/ ~single.some
  THEN [g EXCEPT !.pc = "failed", !.err = Raised(ErrNoSchema, 0)]
  ELSE started(srcs, kw, sch.v, single.v, q, [g EXCEPT !.retained = retained.some],
               take_readers(srcs, kw, retained))

\* resume without the break of lines 261-262
resume_no_break(srcs, kw, sch, single, q, g) == produce(srcs, kw, sch, single, q, g)

\* lines 256-262: the generator is resumed at its yield
resume(srcs, kw, sch, single, q, g) ==
  IF g.n_rows.some /\ g.n_rows.v = 0
  THEN [g EXCEPT !.pc = "done", !.readers = Finalize(g.readers)]
  ELSE produce(srcs, kw, sch, single, q, g)

\* open() calls counted: those a chain's log gained
Opened(count, old, new) ==
  [i \in DOMAIN count |-> count[i] + OpenCount(new, i) - OpenCount(old, i)]

(***************************************************************************)
(* Actions.                                                                *)
(***************************************************************************)
Return(sch) == [kind |-> "return", schema |-> sch, err |-> ""]

Raise(e) == [kind |-> "raise", schema |-> <<>>, err |-> e]

\* schema_opened with the iterator stored before the schema is parsed
schema_opened_readers_first(r) ==
  /\ file_opens' = Opened(file_opens, <<>>, r.readers.log)
  /\ opened_readers' = Some(r.readers)
  /\ IF r.ok
     THEN /\ schema' = Some(r.schema)
          /\ singleton' = Some(r.singleton)
          /\ schema_ret' = Return(r.schema)
          /\ UNCHANGED held
     ELSE /\ schema_ret' = Raise(r.err)
          /\ held' = [held EXCEPT ![schema_calls + 1] = r.readers]
          /\ UNCHANGED <<schema, singleton>>

\* lines 211-219: iter_readers returned r or raised
schema_opened(r) ==
  /\ file_opens' = Opened(file_opens, <<>>, r.readers.log)
  /\ IF r.ok
     THEN /\ schema' = Some(r.schema)
          /\ singleton' = Some(r.singleton)
          /\ opened_readers' = Some(r.readers)
          /\ schema_ret' = Return(r.schema)
          /\ UNCHANGED held
     ELSE /\ schema_ret' = Raise(r.err)
          /\ held' = [held EXCEPT ![schema_calls + 1] = r.readers]
          /\ UNCHANGED <<schema, singleton, opened_readers>>

\* get_schema without the test of lines 205-206
get_schema_no_memo ==
  /\ schema_calls < MaxSchemaCalls
  /\ schema_calls' = schema_calls + 1
  /\ schema_opened(iter_readers(sources, kwargs))
  /\ UNCHANGED <<glob_vars, sources, kwargs, queries, gens, ncalls, parse_vars>>

\* get_schema()
get_schema ==
  /\ schema_calls < MaxSchemaCalls
  /\ schema_calls' = schema_calls + 1
  /\ IF schema.some
     THEN /\ schema_ret' = Return(schema.v)
          /\ UNCHANGED <<schema, singleton, opened_readers, held, file_opens>>
     ELSE IF opened_readers.some
     THEN /\ schema_ret' = Raise(ErrReadersNoSchema)
          /\ UNCHANGED <<schema, singleton, opened_readers, held, file_opens>>
     ELSE schema_opened(iter_readers(sources, kwargs))
  /\ UNCHANGED <<glob_vars, sources, kwargs, queries, gens, ncalls, parse_vars>>

\* source_generator(with_columns, predicate, n_rows, batch_size): the call
\* returns a generator object, and runs none of the body
source_generator ==
  /\ ncalls < Len(queries)
  /\ ncalls' = ncalls + 1
  /\ gens' = [gens EXCEPT ![ncalls + 1] =
                [NoGen EXCEPT !.pc = "created", !.n_rows = queries[ncalls + 1].n_rows]]
  /\ UNCHANGED <<glob_vars, sources, kwargs, queries, schema, singleton, opened_readers,
                 schema_calls, schema_ret, held, file_opens, parse_vars>>

\* generator p has run from its log old to the state g
Ran(p, old, g) ==
  /\ gens' = [gens EXCEPT ![p] = g]
  /\ file_opens' = Opened(file_opens, old, g.readers.log)

\* Start without line 241: the retained iterator stays in its cell
Start_keep_retained(p) ==
  /\ gens[p].pc = "created"
  /\ Ran(p, IF opened_readers.some THEN opened_readers.v.log ELSE <<>>,
         start(sources, kwargs, schema, singleton, opened_readers, queries[p],
               gens[p]))
  /\ UNCHANGED <<glob_vars, sources, kwargs, queries, schema, singleton, opened_readers,
                 ncalls, schema_calls, schema_ret, held, parse_vars>>

\* the first next() on generator p
Start(p) ==
  /\ gens[p].pc = "created"
  /\ Ran(p, IF opened_readers.some THEN opened_readers.v.log ELSE <<>>,
         start(sources, kwargs, schema, singleton, opened_readers, queries[p],
               gens[p]))
  /\ opened_readers' = IF schema.some /\ singleton.some THEN Nothing
                       ELSE opened_readers
  /\ UNCHANGED <<glob_vars, sources, kwargs, queries, schema, singleton, ncalls,
                 schema_calls, schema_ret, held, parse_vars>>

\* a later next() on generator p
Resume(p) ==
  /\ gens[p].pc = "suspended"
  /\ Ran(p, gens[p].readers.log,
         resume(sources, kwargs, schema.v, singleton.v, queries[p], gens[p]))
  /\ UNCHANGED <<glob_vars, sources, kwargs, queries, schema, singleton, opened_readers,
                 ncalls, schema_calls, schema_ret, held, parse_vars>>

\* the consumer drops generator p before its end
Close(p) ==
  /\ gens[p].pc \in {"created", "suspended"}
  /\ gens' = [gens EXCEPT ![p] = [@ EXCEPT !.pc = "closed",
                                           !.readers = Finalize(@)]]
  /\ UNCHANGED <<glob_vars, sources, kwargs, queries, schema, singleton, opened_readers,
                 ncalls, schema_calls, schema_ret, held, file_opens, parse_vars>>

\* the exceptions the caller may be holding: that of get_schema call n, that
\* of generator n
Exceptions ==
  [of : {"get_schema"}, n : 1..MaxSchemaCalls] \cup [of : {"next"}, n : 1..MaxCalls]

\* the caller lets go of exception e: the frames its traceback kept are
\* freed, the open_sources generator among them, suspended in its with
\* block, which closes the file
Drop(e) ==
  IF e.of = "get_schema"
  THEN /\ held[e.n].open # {}
       /\ held' = [held EXCEPT ![e.n] = Finalize(@)]
       /\ UNCHANGED <<glob_vars, sources, kwargs, queries, schema, singleton,
                      opened_readers, gens, ncalls, schema_calls, schema_ret,
                      file_opens, parse_vars>>
  ELSE /\ gens[e.n].pc = "failed"
       /\ gens[e.n].readers.open # {}
       /\ gens' = [gens EXCEPT ![e.n] = [@ EXCEPT !.readers = Finalize(@)]]
       /\ UNCHANGED <<glob_vars, sources, kwargs, queries, schema, singleton,
                      opened_readers, ncalls, schema_calls, schema_ret, held,
                      file_opens, parse_vars>>

(***************************************************************************)
(* The expansion of the sources argument (open_sources, lines 112-128).    *)
(* A path is the sequence of its code points, which is what sorted()       *)
(* compares; an entry is a path or an open binary handle.                  *)
(***************************************************************************)
SeqsUpTo(S, n) == UNION {[1..m -> S] : m \in 0..n}

PathEntry(path) == [k |-> "path", path |-> path]

HandleEntry(id) == [k |-> "handle", id |-> id]

ListOf(items) == [k |-> "list", items |-> items]

ErrNotFound == "FileNotFoundError"

\* str.__lt__: the first differing code point decides, a proper prefix is
\* smaller
RECURSIVE LexLess(_, _)
LexLess(a, b) ==
  CASE b = <<>> -> FALSE
    [] a = <<>> -> TRUE
    [] Head(a) # Head(b) -> Head(a) < Head(b)
    [] OTHER -> LexLess(Tail(a), Tail(b))

RECURSIVE Insert(_, _)
Insert(x, xs) ==
  IF xs = <<>> THEN <<x>>
  ELSE IF LexLess(x, Head(xs)) THEN <<x>> \o xs
  ELSE <<Head(xs)>> \o Insert(x, Tail(xs))

RECURSIVE sorted(_)
sorted(xs) == IF xs = <<>> THEN <<>> ELSE Insert(Head(xs), sorted(Tail(xs)))

\* lines 112-116
normed(srcs) == IF srcs.k = "list" THEN srcs.items ELSE <<srcs>>

ErrSurrogate == "UnicodeEncodeError: surrogates not allowed"

ErrNullByte == "ValueError: embedded null byte"

\* the environment expanduser reads:
\*   HOME     the value of the environment variable, or None
\*   uid_dir  pwd.getpwuid(os.getuid()).pw_dir, or None if there is no entry
\*   passwd   the entries of the password database, in its order
Environ(home, uid_dir, passwd) ==
  [HOME |-> home, uid_dir |-> uid_dir, passwd |-> passwd]

PwEntry(name, dir) == [pw_name |-> name, pw_dir |-> dir]

\* a code point the file system encoding cannot encode: a surrogate other
\* than those that stand for an undecodable byte
Unencodable(c) == c \in 55296..57343 /\ c \notin 56448..56575

\* pwd.getpwnam(name): the first entry of that name, KeyError if there is
\* none, and the error of a name that cannot be passed on
getpwnam(passwd, name) ==
  IF \E n \in DOMAIN name : Unencodable(name[n])
  THEN [kind |-> "raise", err |-> ErrSurrogate]
  ELSE IF \E n \in DOMAIN name : name[n] = 0
  THEN [kind |-> "raise", err |-> ErrNullByte]
  ELSE IF \E n \in DOMAIN passwd : passwd[n].pw_name = name
  THEN [kind |-> "entry",
        pw_dir |-> passwd[CHOOSE n \in DOMAIN passwd :
                            /\ passwd[n].pw_name = name
                            /\ \A m \in 1..(n - 1) : passwd[m].pw_name # name].pw_dir]
  ELSE [kind |-> "KeyError"]

\* path.find("/", 1), counted from 1, and len(path) + 1 if there is none
RECURSIVE FindSlash(_, _)
FindSlash(path, i) ==
  IF i > Len(path) THEN Len(path) + 1
  ELSE IF path[i] = 47 THEN i
  ELSE FindSlash(path, i + 1)

\* userhome.rstrip("/")
RECURSIVE RStripSlash(_)
RStripSlash(path) ==
  IF path # <<>> /\ path[Len(path)] = 47
  THEN RStripSlash(SubSeq(path, 1, Len(path) - 1))
  ELSE path

\* (userhome + path[i:]) or "/"
JoinHome(userhome, tail) ==
  IF RStripSlash(userhome) \o tail = <<>> THEN <<47>>
  ELSE RStripSlash(userhome) \o tail

Expanded(path) == [ok |-> TRUE, path |-> path]

\* the ~name form, given the outcome pwent of the lookup of the name
expanduser_name(path, i, pwent) ==
  CASE pwent.kind = "raise" -> Err(pwent.err)
    [] pwent.kind = "KeyError" -> Expanded(path)
    [] OTHER -> Expanded(JoinHome(pwent.pw_dir, SubSeq(path, i, Len(path))))

\* expanduser, given the index i of the first slash
expanduser_at(env, path, i) ==
  IF i = 2
  THEN IF env.HOME # None
       THEN Expanded(JoinHome(env.HOME.v, SubSeq(path, i, Len(path))))
       ELSE IF env.uid_dir = None THEN Expanded(path)
       ELSE Expanded(JoinHome(env.uid_dir.v, SubSeq(path, i, Len(path))))
  ELSE expanduser_name(path, i, getpwnam(env.passwd, SubSeq(path, 2, i - 1)))

\* line 121: a leading ~ is replaced by the home directory of the user, and
\* a leading ~name by that of the user name, if there is such a user
expanduser(env, path) ==
  IF path = <<>> \/ Head(path) # 126 THEN Expanded(path)
  ELSE expanduser_at(env, path, FindSlash(path, 2))

\* line 123 without sorted()
globbed_unsorted(path, g, lst) == IF g THEN lst[path] ELSE <<path>>

\* line 123: the paths of an entry
globbed(path, g, lst) == IF g THEN sorted(lst[path]) ELSE <<path>>

\* the open_sources generator:
\*   i, paths, j  the entry of normed it is at, that entry's paths and the
\*                one of them it has yielded
\*   open         the path of the file its with block holds open
\*   yielded      what it has yielded, in order
\*   state        none | live | exhausted | raised
NoOpener ==
  [i |-> 0, paths |-> <<>>, j |-> 0, open |-> <<>>, yielded |-> <<>>,
   state |-> "none", err |-> ""]

\* line 125: open(fpath, "rb")
open_path(o, fpath, disk) ==
  IF fpath \in disk
  THEN [o EXCEPT !.open = <<fpath>>, !.yielded = Append(@, PathEntry(fpath)),
                 !.state = "live"]
  ELSE [o EXCEPT !.state = "raised", !.err = ErrNotFound]

RECURSIVE open_next(_, _, _, _, _, _)

\* lines 121-126, given the outcome x of expanduser for the entry come to
open_expanded(srcs, g, lst, disk, env, o, x) ==
  IF ~x.ok
  THEN [o EXCEPT !.i = @ + 1, !.j = 0, !.paths = <<>>, !.state = "raised",
                 !.err = x.err]
  ELSE open_next(srcs, g, lst, disk, env,
                 [o EXCEPT !.i = @ + 1, !.j = 0,
                           !.paths = globbed(x.path, g, lst)])

\* lines 118-128 from the point the generator is resumed at, the file of the
\* with block it was suspended in being closed: the next path of the entry,
\* or the next entry
open_next(srcs, g, lst, disk, env, o) ==
  IF o.j < Len(o.paths)
  THEN open_path([o EXCEPT !.j = @ + 1], o.paths[o.j + 1], disk)
  ELSE IF o.i >= Len(normed(srcs))
  THEN [o EXCEPT !.state = "exhausted"]
  ELSE IF normed(srcs)[o.i + 1].k = "path"
  THEN open_expanded(srcs, g, lst, disk, env, o,
                     expanduser(env, normed(srcs)[o.i + 1].path))
  ELSE [o EXCEPT !.i = @ + 1, !.j = 0, !.paths = <<>>, !.state = "live",
                 !.yielded = Append(@, normed(srcs)[o.i + 1])]

\* the paths that begin with ~: ~/b, ~root/b, ~x, where there is no user x,
\* and ~ with a user name of one null character and of one lone surrogate
TildeB == <<126, 47, 98>>

TildeRootB == <<126, 114, 111, 111, 116, 47, 98>>

TildeX == <<126, 120>>

TildeNul == <<126, 0>>

TildeSur == <<126, 55296>>

\* the files of the working directory: B, a10, a9, b and one named ~x
CwdFiles == {<<66>>, <<97, 49, 48>>, <<97, 57>>, <<98>>, TildeX}

\* the home directory /root of the user root, the value /h/ of HOME, and
\* the file b in each
RootHome == <<47, 114, 111, 111, 116>>

EnvHome == <<47, 104, 47>>

OnDisk == CwdFiles \cup {RootHome \o <<47, 98>>, <<47, 104, 47, 98>>}

\* the patterns * and a*, and what glob.glob matches: a name without a
\* wildcard matches itself if the file is there
Star == <<42>>

AStar == <<97, 42>>

Matches(path) ==
  CASE path = Star -> CwdFiles
    [] path = AStar -> {<<97, 49, 48>>, <<97, 57>>}
    [] path \in OnDisk -> {path}
    [] OTHER -> {}

\* the orderings of a set
Orderings(S) ==
  {f \in [1..Cardinality(S) -> S] : \A x \in S : \E n \in DOMAIN f : f[n] = x}

\* the paths an entry may be: the patterns, b, c, which is no file, and
\* those that begin with ~
Paths ==
  {Star, AStar, <<98>>, <<99>>, TildeB, TildeRootB, TildeX, TildeNul, TildeSur}

\* the paths glob.glob is called with: those of the entries, expanded or not
GlobPaths ==
  {Star, AStar, <<98>>, <<99>>, TildeB, TildeRootB, TildeX,
   RootHome \o <<47, 98>>, <<47, 104, 47, 98>>}

\* what glob.glob may return: the matches of each path in any order
Listings ==
  {[path \in GlobPaths |->
      CASE path = Star -> s [] path = AStar -> a [] OTHER -> o[path]] :
     s \in Orderings(Matches(Star)), a \in Orderings(Matches(AStar)),
     o \in {[path \in GlobPaths |-> IF path \in OnDisk THEN <<path>> ELSE <<>>]}}

\* HOME is /h/ or not set, the user running the scan has the home directory
\* /root in the password database or no entry, and the database holds the
\* user root or nobody
Environs ==
  {Environ(home, uid_dir, passwd) :
     home \in {None, Some(EnvHome)}, uid_dir \in {None, Some(RootHome)},
     passwd \in {<<>>, <<PwEntry(<<114, 111, 111, 116>>, RootHome)>>}}

Entries == {PathEntry(path) : path \in Paths} \cup {HandleEntry(1)}

Arguments == Entries \cup {ListOf(es) : es \in SeqsUpTo(Entries, MaxEntries)}

\* next(source_iter)
OpenNext ==
  /\ opener.state \in {"none", "live"}
  /\ opener' = open_next(argument, glob, listing, OnDisk, environ,
                         [opener EXCEPT !.open = <<>>])
  /\ UNCHANGED <<argument, glob, listing, environ, scan_vars, parse_vars>>

GlobIdle ==
  /\ argument = ListOf(<<>>)
  /\ glob = TRUE
  /\ listing = <<>>
  /\ environ = Environ(None, None, <<>>)
  /\ opener = NoOpener

(***************************************************************************)
(* Initial states: the scans and the engine's calls the model ranges over. *)
(***************************************************************************)
NoResult == [op |-> "", out |-> Err("")]

DocLong == ObjRecord(<<Field("value", Name("long"))>>)

DocInt == ObjRecord(<<Field("value", Name("int"))>>)

DocBare == Name("long")

DocDecimal == ObjRecord(<<Field("value", ObjLogical("long", "decimal"))>>)

SourceDocs == {DocLong, DocInt, DocBare, DocDecimal}

Files(docs, most) == [doc : docs, nrows : 0..most]

Kwargs(clt, sizes, names) ==
  [convert_logical_types : clt, batch_size : sizes, single_col_name : names]

NoArgs == Args(Nothing, None, Nothing, Nothing)

Limits == {Nothing} \cup {Some(n) : n \in 0..MaxLimit}

BatchSizes == {Nothing} \cup {Some(n) : n \in -1..MaxBatch}

AllArgs ==
  {Args(c, p, n, b) : c \in {Nothing, Some(<<"value">>)}, p \in {None, Some("idx_is_odd")},
                      n \in Limits, b \in BatchSizes}

ScanInit(S, K, Q) ==
  /\ sources \in S
  /\ kwargs \in K
  /\ queries \in Q
  /\ schema = Nothing
  /\ singleton = Nothing
  /\ opened_readers = Nothing
  /\ gens = [p \in 1..MaxCalls |-> NoGen]
  /\ ncalls = 0
  /\ schema_calls = 0
  /\ schema_ret = Raise("")
  /\ held = [n \in 1..MaxSchemaCalls |-> NoChain]
  /\ file_opens = [i \in 1..MaxSources |-> 0]
  /\ doc = NoNode
  /\ parser = DataTypeParser(FALSE, None)
  /\ result = NoResult
  /\ GlobIdle

\* the closure's protocol: a few small files, up to MaxCalls calls
Init ==
  ScanInit(SeqsUpTo(Files({DocLong, DocBare}, FewRows), MaxSources),
           Kwargs({FALSE}, 1..MaxBatch, {None, Some("value")}),
           SeqsUpTo({NoArgs, Args(Nothing, None, Some(1), Nothing)}, MaxCalls))

\* batching: files of one schema, one call with any arguments, any batch size
InitBatch ==
  ScanInit(SeqsUpTo(Files({DocLong}, MaxRows), MaxSources) \ {<<>>},
           Kwargs({FALSE}, -1..MaxBatch, {None}),
           [1..1 -> AllArgs])

\* several sources of any schema, one call
InitMulti ==
  ScanInit(SeqsUpTo(Files(SourceDocs, FewRows), MaxSources),
           Kwargs(BOOLEAN, 1..MaxBatch, {None, Some("value")}),
           [1..1 -> {NoArgs, Args(Nothing, None, Some(MaxLimit), Nothing)}])

(***************************************************************************)
(* The translator on its own: the documents it is applied to.              *)
(***************************************************************************)
Primitives ==
  {"null", "boolean", "int", "long", "float", "double", "bytes", "string"}

LogicalTypes ==
  {"timestamp-millis", "timestamp-micros", "timestamp-nanos",
   "local-timestamp-millis", "local-timestamp-micros", "local-timestamp-nanos",
   "date", "decimal", "uuid"}

Leaves ==
  {Name(t) : t \in Primitives \cup {"MyFixed"}}
    \cup {Obj(t) : t \in Primitives \cup {"map", "fixed"}}
    \cup {ObjLogical(t, l) : t \in {"int", "long", "bytes", "string", "float"},
                             l \in LogicalTypes}
    \cup {ObjEnum(<<"A", "B">>), ObjEnum(<<>>)}

Nullable(T) ==
  {List(<<Name("null"), t>>) : t \in T} \cup {List(<<t, Name("null")>>) : t \in T}
    \cup {List(<<t>>) : t \in T}

FieldTypes ==
  {Name("long"), Obj("boolean"), ObjLogical("int", "date"),
   ObjLogical("long", "decimal"), List(<<Name("null"), Name("string")>>),
   Obj("map")}

Fields ==
  {Field(n, t) : n \in {"a", "b"}, t \in FieldTypes} \cup {FieldNoType("a")}

Records == {ObjRecord(fs) : fs \in SeqsUpTo(Fields, MaxFields)}

Nested ==
  {ObjArray(t) : t \in Leaves \cup {DocLong, List(<<Name("null"), Name("int")>>)}}
    \cup {ObjRecord(<<Field("a", DocLong)>>),
          ObjRecord(<<Field("a", ObjArray(Name("string"))), Field("b", Name("int"))>>),
          List(<<Name("long"), Name("string")>>),
          List(<<Name("null"), Name("long"), Name("string")>>),
          List(<<List(<<Name("null"), Name("long")>>)>>),
          List(<<>>)}

Docs == Leaves \cup Nullable(Leaves \cup {DocLong}) \cup Records \cup Nested

InitParse ==
  /\ doc \in Docs
  /\ parser \in {DataTypeParser(plt, scn) : plt \in BOOLEAN,
                                       scn \in {None, Some("value"), Some("None")}}
  /\ result = NoResult
  /\ sources = <<>>
  /\ kwargs = [convert_logical_types |-> FALSE, batch_size |-> 1,
               single_col_name |-> None]
  /\ queries = <<>>
  /\ schema = Nothing
  /\ singleton = Nothing
  /\ opened_readers = Nothing
  /\ gens = [p \in 1..MaxCalls |-> NoGen]
  /\ ncalls = 0
  /\ schema_calls = 0
  /\ schema_ret = Raise("")
  /\ held = [n \in 1..MaxSchemaCalls |-> NoChain]
  /\ file_opens = [i \in 1..MaxSources |-> 0]
  /\ GlobIdle

\* the opener on its own: every argument, flag and listing order
InitGlob ==
  /\ argument \in Arguments
  /\ glob \in BOOLEAN
  /\ listing \in Listings
  /\ environ \in Environs
  /\ opener = NoOpener
  /\ sources = <<>>
  /\ kwargs = [convert_logical_types |-> FALSE, batch_size |-> 1,
               single_col_name |-> None]
  /\ queries = <<>>
  /\ schema = Nothing
  /\ singleton = Nothing
  /\ opened_readers = Nothing
  /\ gens = [p \in 1..MaxCalls |-> NoGen]
  /\ ncalls = 0
  /\ schema_calls = 0
  /\ schema_ret = Raise("")
  /\ held = [n \in 1..MaxSchemaCalls |-> NoChain]
  /\ file_opens = [i \in 1..MaxSources |-> 0]
  /\ doc = NoNode
  /\ parser = DataTypeParser(FALSE, None)
  /\ result = NoResult

\* parser.parse_dtype(doc)
ParseDtype ==
  /\ result' = [op |-> "parse_dtype", out |-> parse_dtype(parser, doc)]
  /\ UNCHANGED <<doc, parser, scan_vars, glob_vars>>

\* parser.parse_schema(doc)
ParseSchema ==
  /\ result' = [op |-> "parse_schema", out |-> parse_schema(parser, doc)]
  /\ UNCHANGED <<doc, parser, scan_vars, glob_vars>>

NextParse == ParseDtype \/ ParseSchema

Next ==
  \/ get_schema
  \/ source_generator
  \/ \E p \in 1..MaxCalls : Start(p)
  \/ \E p \in 1..MaxCalls : Resume(p)
  \/ \E p \in 1..MaxCalls : Close(p)
  \/ \E e \in Exceptions : Drop(e)

Spec == Init /\ [][Next]_vars

SpecBatch == InitBatch /\ [][Next]_vars

SpecMulti == InitMulti /\ [][Next]_vars

SpecParse == InitParse /\ [][NextParse]_vars

NextGlob == OpenNext

SpecGlob == InitGlob /\ [][NextGlob]_vars

(***************************************************************************)
(* Properties.                                                             *)
(***************************************************************************)
\* the rows of the sources, in source order
RowsOf(i) == [j \in 1..sources[i].nrows |-> Rec(i, j)]

RECURSIVE RowsUpTo(_)
RowsUpTo(n) == IF n = 0 THEN <<>> ELSE RowsUpTo(n - 1) \o RowsOf(n)

AllRows == RowsUpTo(Len(sources))

RECURSIVE ConcatRows(_)
ConcatRows(frames) ==
  IF frames = <<>> THEN <<>> ELSE Head(frames).rows \o ConcatRows(Tail(frames))

Min(a, b) == IF a < b THEN a ELSE b

\* the body of generator p has run and taken or opened its readers
HasRun(p) == gens[p].readers.state # "none"

\* generator p runs with a positive batch size and no projection, predicate
\* or limit
PlainPass(p) ==
  /\ HasRun(p)
  /\ gens[p].pc \in {"suspended", "done", "closed"}
  /\ queries[p].with_columns = Nothing
  /\ queries[p].predicate = None
  /\ queries[p].n_rows = Nothing
  /\ ChunkSize(queries[p], kwargs) > 0

\* C1: with R rows, batch size B > 0 and no projection, predicate or limit,
\* the i-th batch yielded holds rows (i-1)B+1 .. min(iB, R) of the source row
\* sequence, so every batch but the last has B rows and none is empty; a
\* pass that has ended has yielded ceil(R/B) batches, the last of R mod B
\* rows unless B divides R, and their concatenation is the row sequence.
C1_BatchLengths ==
  \A p \in 1..MaxCalls :
    PlainPass(p) =>
      LET B == ChunkSize(queries[p], kwargs)
          R == Len(AllRows)
          out == gens[p].out
      IN  /\ \A i \in 1..Len(out) :
                /\ out[i].rows = SubSeq(AllRows, (i - 1) * B + 1, Min(i * B, R))
                /\ Len(out[i].rows) >= 1
                /\ i < Len(out) => Len(out[i].rows) = B
          /\ gens[p].pc = "done" =>
                /\ Len(out) = (R + B - 1) \div B
                /\ ConcatRows(out) = AllRows
                /\ R = 0 => out = <<>>
                /\ R > 0 =>
                     Len(out[Len(out)].rows) = IF R % B = 0 THEN B ELSE R % B

\* a pass over several files has ended with a short last batch after a full
\* one
C1_Witness ==
  \E p \in 1..MaxCalls :
    /\ PlainPass(p)
    /\ gens[p].pc = "done"
    /\ Len(sources) >= 2
    /\ Len(gens[p].out) >= 2
    /\ Len(gens[p].out[Len(gens[p].out)].rows) < ChunkSize(queries[p], kwargs)

\* generator p runs with a positive batch size, a row limit and no predicate
LimitPass(p) ==
  /\ HasRun(p)
  /\ gens[p].pc \in {"suspended", "done", "closed"}
  /\ queries[p].predicate = None
  /\ queries[p].n_rows # Nothing
  /\ ChunkSize(queries[p], kwargs) > 0

RowsOut(p) == ConcatRows(gens[p].out)

\* what a pass with limit L has yielded is a prefix of the source rows of at
\* most min(L, R) rows, every batch is cut to the budget left before it, the
\* budget is L less the rows yielded, and a pass that has ended has yielded
\* the first min(L, R) rows; with L = 0 that is one empty batch, made from
\* the first chunk pulled
C2_Yielded ==
  \A p \in 1..MaxCalls :
    LimitPass(p) =>
      LET L == queries[p].n_rows.v
          R == Len(AllRows)
          out == gens[p].out
      IN  /\ RowsOut(p) = SubSeq(AllRows, 1, Len(RowsOut(p)))
          /\ Len(RowsOut(p)) <= Min(L, R)
          /\ gens[p].n_rows = Some(L - Len(RowsOut(p)))
          /\ \A i \in 1..Len(out) :
                Len(out[i].rows) <= L - Len(ConcatRows(SubSeq(out, 1, i - 1)))
          /\ gens[p].pc = "done" => Len(RowsOut(p)) = Min(L, R)
          /\ L = 0 /\ R > 0 =>
                /\ Len(out) = 1 /\ out[1].rows = <<>>
                /\ Pulled(gens[p].readers.log) =
                     Min(ChunkSize(queries[p], kwargs), R)

\* a generator suspended at a yield that left its budget at zero yields
\* nothing more and pulls nothing more: its next step ends it
C2_Stops ==
  \A p \in 1..MaxCalls :
    gens[p].pc = "suspended" /\ gens[p].n_rows = Some(0) =>
      /\ gens'[p].pc \in {"suspended", "done", "closed"}
      /\ gens'[p].out = gens[p].out
      /\ Pulled(gens'[p].readers.log) = Pulled(gens[p].readers.log)

\* C2 (amended): with a row limit L and no predicate a pass yields exactly
\* the first min(L, R) rows in source order, every yielded batch is cut to
\* the remaining budget, and once a yielded batch has left the budget at
\* zero no further batch is yielded and no further record is pulled; the
\* budget is tested only after a batch, so with L = 0 the pass still pulls
\* the first chunk and yields one empty batch before it stops.
C2_RowLimit == []C2_Yielded /\ [][C2_Stops]_vars

\* C2 as stated: once the budget is zero, no batch is yielded and no record
\* is pulled.
C2_NothingAtZeroBudget ==
  [][\A p \in 1..MaxCalls :
       /\ gens[p].pc \in {"created", "suspended"}
       /\ queries[p].predicate = None
       /\ gens[p].n_rows = Some(0)
       => /\ gens'[p].out = gens[p].out
          /\ Pulled(gens'[p].readers.log) = Pulled(gens[p].readers.log)]_vars

\* a limit met inside the second batch: a full batch, a cut one, the end,
\* with rows of the sources left unread
C2_Witness ==
  \E p \in 1..MaxCalls :
    /\ LimitPass(p)
    /\ gens[p].pc = "done"
    /\ queries[p].n_rows = Some(MaxLimit)
    /\ Len(gens[p].out) = 2
    /\ Len(gens[p].out[1].rows) = ChunkSize(queries[p], kwargs)
    /\ Len(gens[p].out[2].rows) < ChunkSize(queries[p], kwargs)
    /\ Pulled(gens[p].readers.log) < Len(AllRows)

\* the translation of source i's writer schema under the scan's options
Translated(i) ==
  parse_schema(DataTypeParser(kwargs.convert_logical_types, kwargs.single_col_name),
               sources[i].doc)

\* source k, not the first, translates to a schema or a singleton flag other
\* than the committed ones
Differs(k) ==
  /\ k \in 2..Len(sources)
  /\ schema # Nothing
  /\ Translated(k).ok
  /\ Translated(k).schema # schema.v \/ Translated(k).singleton # singleton.v

Events(p) == {gens[p].readers.log[n] : n \in 1..Len(gens[p].readers.log)}

\* C3: when source k differs from the committed schema or singleton flag, a
\* pass that reaches source k fails there with the schema-mismatch error, no
\* pass ends by exhausting the sources, no record of source k or of a later
\* source is pulled or yielded, and no source after k is opened.
C3_MismatchStops ==
  \A p \in 1..MaxCalls : \A k \in 2..MaxSources :
    Differs(k) /\ HasRun(p) =>
      /\ <<"open", k>> \in Events(p) =>
            gens[p].pc = "failed" /\ gens[p].err = Raised(ErrMismatch, k - 1)
      /\ gens[p].pc = "done" => gens[p].n_rows = Some(0)
      /\ \A e \in Events(p) : e[1] = "pull" => e[2] < k
      /\ \A i \in 1..Len(gens[p].out) : \A j \in 1..Len(gens[p].out[i].rows) :
            gens[p].out[i].rows[j].src < k
      /\ \A j \in (k + 1)..Len(sources) : <<"open", j>> \notin Events(p)

\* the second of three sources differs: the pass yielded rows of the first,
\* failed at the second, and the third holds a row never produced
C3_Witness ==
  \E p \in 1..MaxCalls :
    /\ Len(sources) = 3
    /\ Differs(2)
    /\ sources[3].nrows > 0
    /\ gens[p].pc = "failed"
    /\ gens[p].err.kind = ErrMismatch
    /\ gens[p].out # <<>>

\* the body of generator p runs in this step
Starts(p) == gens[p].pc = "created" /\ gens'[p].pc \notin {"created", "closed"}

\* at most one generator holds the retained iterator, none while it is still
\* in its cell; the call holding it has opened the first source once, the
\* open of the schema request; every other call that ran opened it again
C4_OneTaker ==
  /\ Cardinality({p \in 1..MaxCalls : gens[p].retained}) <= 1
  /\ opened_readers # Nothing => \A p \in 1..MaxCalls : ~gens[p].retained
  /\ \A p \in 1..MaxCalls :
       gens[p].retained => OpenCount(gens[p].readers.log, 1) = 1
  /\ schema # Nothing =>
       file_opens[1] =
         1 + Cardinality({p \in 1..MaxCalls : HasRun(p) /\ ~gens[p].retained})

\* the call whose body runs while the iterator is retained takes it, as it
\* is, and clears the cell without opening the first source again
C4_Take ==
  \A p \in 1..MaxCalls :
    Starts(p) /\ opened_readers # Nothing =>
      /\ gens'[p].retained
      /\ opened_readers' = Nothing
      /\ SubSeq(gens'[p].readers.log, 1, Len(opened_readers.v.log))
           = opened_readers.v.log
      /\ file_opens'[1] = file_opens[1]

\* C4: the iterator retained by the schema request is handed to exactly one
\* batch-production call, the first whose body runs, which clears the cell;
\* over the schema request and that call the first source is opened once,
\* and no two calls consume the retained iterator.
C4_RetainedOnce == []C4_OneTaker /\ [][C4_Take]_vars

\* two calls have run: one took the retained iterator, the other opened the
\* sources again
C4_Witness ==
  \E p, q \in 1..MaxCalls :
    /\ gens[p].retained /\ HasRun(p)
    /\ HasRun(q) /\ ~gens[q].retained
    /\ file_opens[1] = 2

\* C5 as stated: a call whose body runs before any schema request opens the
\* sources and produces batches, rather than failing.
C5_ReopensBeforeSchema ==
  [][\A p \in 1..MaxCalls :
       Starts(p) /\ schema = Nothing =>
         /\ gens'[p].pc \in {"suspended", "done"}
         /\ file_opens'[1] = file_opens[1] + 1]_vars

\* a call whose body runs before the schema is committed raises the internal
\* error and touches nothing else; one that runs after it, with no iterator
\* retained, opens the sources from the first
C5_Start ==
  \A p \in 1..MaxCalls :
    Starts(p) =>
      IF schema = Nothing
      THEN /\ gens'[p].pc = "failed"
           /\ gens'[p].err = Raised(ErrNoSchema, 0)
           /\ gens'[p].out = <<>>
           /\ ~HasRun(p)'
           /\ UNCHANGED <<file_opens, opened_readers, schema, singleton>>
      ELSE /\ gens'[p].err.kind # ErrNoSchema
           /\ opened_readers = Nothing =>
                /\ ~gens'[p].retained
                /\ Head(gens'[p].readers.log) = <<"open", 1>>
                /\ file_opens'[1] = file_opens[1] + 1

\* C5 (amended): a batch-production call whose body runs before any
\* successful schema request fails with the internal error "schema not
\* defined when it needed to be", opening no source and yielding no batch;
\* the sources are opened again from scratch only by a call that runs after
\* the schema phase when no iterator is retained.
C5_FailsBeforeSchema == [][C5_Start]_vars

\* a call made before any schema request has failed with the internal error
C5_Witness ==
  \E p \in 1..MaxCalls :
    /\ schema_calls = 0
    /\ gens[p].pc = "failed"
    /\ gens[p].err = Raised(ErrNoSchema, 0)
    /\ file_opens[1] = 0

\* C6 as stated: with a non-positive batch size, as the scan's default or as
\* a call's override, no source is opened and no schema is translated.
C6_RejectedBeforeAnyOpen ==
  (\/ kwargs.batch_size <= 0
   \/ \E p \in 1..Len(queries) :
        queries[p].batch_size # Nothing /\ queries[p].batch_size.v <= 0)
  => /\ \A i \in 1..MaxSources : file_opens[i] = 0
     /\ schema = Nothing

\* the files some chain holds open
OpenHandles ==
  (IF opened_readers # Nothing THEN opened_readers.v.open ELSE {})
    \cup UNION {gens[p].readers.open : p \in 1..MaxCalls}
    \cup UNION {held[n].open : n \in 1..MaxSchemaCalls}

\* every call the engine makes has been made and has ended, and the caller
\* holds none of the exceptions the calls raised
ScanEnded ==
  /\ ncalls = Len(queries)
  /\ \A p \in 1..MaxCalls : gens[p].pc \in {"none", "done", "failed", "closed"}
  /\ \A p \in 1..MaxCalls : gens[p].pc = "failed" => gens[p].readers.open = {}
  /\ \A n \in 1..MaxSchemaCalls : held[n].open = {}

\* C7: once the scan has ended, on whatever path (rows exhausted, limit
\* reached, generator dropped, schema requested and no batch call made, a
\* schema error or a mismatch), no file the opener opened is still open.
C7_NoHandleLeft == ScanEnded => OpenHandles = {}

\* a step that is a get_schema call made with the schema committed
C8_Step ==
  /\ schema # Nothing => schema' = schema /\ singleton' = singleton
  /\ schema_calls' # schema_calls /\ schema # Nothing =>
       /\ schema_ret' = Return(schema.v)
       /\ UNCHANGED <<schema, singleton, opened_readers, file_opens, gens>>

\* C8: once a get_schema call has committed the schema, every later call
\* returns that schema, opens no source and leaves the schema, the singleton
\* flag and the retained iterator as they are.
C8_Memoized == [][C8_Step]_vars

\* a second schema request was answered with the first source opened once
\* and the iterator still retained
C8_Witness ==
  /\ schema_calls = 2
  /\ schema # Nothing
  /\ schema_ret = Return(schema.v)
  /\ opened_readers # Nothing
  /\ file_opens[1] = 1

RecordDocument(d) == d.k = "obj" /\ d.type = "record" /\ "fields" \in d.keys

WellFormed(fs) == \A i \in 1..Len(fs) : {"name", "type"} \subseteq fs[i].keys

Translates(p, fs) ==
  WellFormed(fs) /\ \A i \in 1..Len(fs) : parse_dtype(p, fs[i].type).ok

UniqueNames(fs) ==
  \A i, j \in 1..Len(fs) : fs[i].name = fs[j].name => i = j

\* C9: translate_schema of a record document whose fields translate is the
\* schema of its fields, field by field in order, with singleton flag false;
\* of any other document it is the top-level-schema error when no wrap name
\* is configured, and otherwise the one-field schema of the wrap name and the
\* translation of the whole document, with singleton flag true; bare "long"
\* under the name "value" gives {value: Int64}.
C9_TranslateSchema ==
  result.op = "parse_schema" =>
    /\ RecordDocument(doc) /\ Translates(parser, doc.fields) =>
         /\ result.out.ok
         /\ result.out.singleton = FALSE
         /\ UniqueNames(doc.fields) =>
              /\ Len(result.out.schema) = Len(doc.fields)
              /\ \A i \in 1..Len(doc.fields) :
                   result.out.schema[i] =
                     <<doc.fields[i].name,
                       parse_dtype(parser, doc.fields[i].type).dtype>>
    /\ RecordDocument(doc) /\ ~Translates(parser, doc.fields) =>
         ~result.out.ok /\ result.out.err # ErrTopLevel
    /\ ~RecordDocument(doc) /\ parser.single_col_name = None =>
         result.out = Err(ErrTopLevel)
    /\ ~RecordDocument(doc) /\ parser.single_col_name # None
         /\ parse_dtype(parser, doc).ok =>
         /\ result.out.ok
         /\ result.out.singleton = TRUE
         /\ result.out.schema =
              <<<<parser.single_col_name.v, parse_dtype(parser, doc).dtype>>>>
    /\ doc = Name("long") /\ parser.single_col_name = Some("value") =>
         result.out.schema = <<<<"value", Scalar("Int64")>>>>

\* a bare "long" has been wrapped under the configured name
C9_Witness ==
  /\ result.op = "parse_schema"
  /\ doc = Name("long")
  /\ parser.single_col_name = Some("value")
  /\ result.out.ok /\ result.out.singleton

\* the scalar column type the claim gives each primitive
ScalarOf(p) ==
  CASE p = "null" -> "Null"
    [] p = "boolean" -> "Boolean"
    [] p = "int" -> "Int32"
    [] p = "long" -> "Int64"
    [] p = "float" -> "Float32"
    [] p = "double" -> "Float64"
    [] p = "bytes" -> "Binary"
    [] p = "string" -> "String"

\* C10: translate_type maps the bare name p and the object form {"type": p}
\* of every primitive p to the same scalar column type.
C10_PrimitiveForms ==
  result.op = "parse_dtype" =>
    \A p \in Primitives :
      doc \in {Name(p), Obj(p)} => result.out = Ok(Scalar(ScalarOf(p)))

\* the Avro logical types the translator knows, by physical type
Recognized ==
  {<<"long", "timestamp-millis">>, <<"long", "timestamp-micros">>,
   <<"long", "timestamp-nanos">>, <<"long", "local-timestamp-millis">>,
   <<"long", "local-timestamp-micros">>, <<"long", "local-timestamp-nanos">>,
   <<"int", "date">>}

RecognizedType(l) ==
  CASE l = "timestamp-millis" -> Datetime("ms", Some("UTC"))
    [] l = "timestamp-micros" -> Datetime("us", Some("UTC"))
    [] l = "timestamp-nanos" -> Datetime("ns", Some("UTC"))
    [] l = "local-timestamp-millis" -> Datetime("ms", None)
    [] l = "local-timestamp-micros" -> Datetime("us", None)
    [] l = "local-timestamp-nanos" -> Datetime("ns", None)
    [] l = "date" -> Scalar("Date")

Physical(t) ==
  CASE t = "int" -> Scalar("Int32")
    [] t = "long" -> Scalar("Int64")
    [] t = "bytes" -> Scalar("Binary")
    [] t = "string" -> Scalar("String")

\* C11: a node {"type": T, "logicalType": L} with T one of int, long, bytes,
\* string translates to the Date or Datetime type of (T, L) when the pair is
\* a recognized one, whatever the flag; when it is not, the translation
\* raises the logical-type error if the flag is off and gives the bare
\* physical type of T if it is on.
C11_LogicalTypes ==
  \A t \in {"int", "long", "bytes", "string"}, l \in LogicalTypes :
    result.op = "parse_dtype" /\ doc = ObjLogical(t, l) =>
      result.out =
        IF <<t, l>> \in Recognized THEN Ok(RecognizedType(l))
        ELSE IF parser.parse_logical_types THEN Ok(Physical(t))
        ELSE Err(ErrLogical)

\* a timestamp logical type on an int, which is no recognized pair, fell
\* back to Int32 with the flag on
C11_Witness ==
  /\ result.op = "parse_dtype"
  /\ doc = ObjLogical("int", "timestamp-millis")
  /\ parser.parse_logical_types
  /\ result.out = Ok(Scalar("Int32"))

\* the optionality forms of a type t
IsOptionalOf(d, t) ==
  d \in {List(<<Name("null"), t>>), List(<<t, Name("null")>>), List(<<t>>)}

\* a union that is none of the optionality forms
OtherUnion(d) ==
  /\ d.k = "list"
  /\ Len(d.items) # 1
  /\ ~(Len(d.items) = 2 /\ Name("null") \in {d.items[1], d.items[2]})

\* C12: for a type T that is no union itself and that the translator
\* supports, ["null", T], [T, "null"] and [T] translate to what T translates
\* to; a union of another form raises the unhandled-datatype error.
C12_Optionality ==
  result.op = "parse_dtype" =>
    /\ \A t \in Leaves \cup {DocLong} :
         IsOptionalOf(doc, t) /\ parse_dtype(parser, t).ok =>
           result.out = parse_dtype(parser, t)
    /\ OtherUnion(doc) => result.out = Err(ErrUnhandled)

\* [T, "null"] translated as T does, for a recognized logical type
C12_Witness ==
  /\ result.op = "parse_dtype"
  /\ doc = List(<<ObjLogical("int", "date"), Name("null")>>)
  /\ result.out = Ok(Scalar("Date"))

\* the elements of a set of paths in ascending order of their code points
RECURSIVE Ascending(_)
Ascending(S) ==
  IF S = {} THEN <<>>
  ELSE LET least == CHOOSE x \in S : \A y \in S \ {x} : LexLess(x, y)
       IN  <<least>> \o Ascending(S \ {least})

Range(f) == {f[n] : n \in DOMAIN f}

\* the user name a path that begins with ~ names: what stands between the
\* ~ and the first slash, nothing for the user running the scan
TildeName(path) ==
  SubSeq(path, 2,
         CHOOSE k \in 1..Len(path) :
           /\ \A n \in 2..k : path[n] # 47
           /\ k = Len(path) \/ path[k + 1] = 47)

\* the home directory known for that user, if any: for the user running the
\* scan HOME or, HOME not set, the one the password database has for them;
\* for a named user the one of the first entry of that name
HomeFor(path) ==
  IF TildeName(path) = <<>>
  THEN IF environ.HOME # None THEN environ.HOME ELSE environ.uid_dir
  ELSE IF \E n \in DOMAIN environ.passwd :
            environ.passwd[n].pw_name = TildeName(path)
  THEN LET first == CHOOSE n \in DOMAIN environ.passwd :
                      /\ environ.passwd[n].pw_name = TildeName(path)
                      /\ \A m \in 1..(n - 1) :
                           environ.passwd[m].pw_name # TildeName(path)
       IN  Some(environ.passwd[first].pw_dir)
  ELSE None

\* the user name after the ~ cannot be handed to the password database
Unlookupable(path) ==
  /\ path # <<>> /\ Head(path) = 126
  /\ \E n \in DOMAIN TildeName(path) :
       TildeName(path)[n] = 0 \/ Unencodable(TildeName(path)[n])

\* the path an entry is opened under: the path as given, unless it begins
\* with ~ and a home directory is known for the user it names, which then
\* stands, without its trailing slashes, for the ~ and the name
HomeExpanded(path) ==
  IF path = <<>> \/ Head(path) # 126 \/ HomeFor(path) = None THEN path
  ELSE RStripSlash(HomeFor(path).v)
         \o SubSeq(path, Len(TildeName(path)) + 2, Len(path))

\* what an entry stands for: a handle for itself, a path for its matches in
\* ascending order if glob is on and for itself if it is off, the ~ expanded
\* first; nothing if the user name cannot be looked up
EntryFiles(e) ==
  IF e.k = "handle" THEN <<e>>
  ELSE IF Unlookupable(e.path) THEN <<>>
  ELSE IF glob
  THEN LET asc == Ascending(Range(listing[HomeExpanded(e.path)]))
       IN  [n \in DOMAIN asc |-> PathEntry(asc[n])]
  ELSE <<PathEntry(HomeExpanded(e.path))>>

RECURSIVE ExpectedFiles(_)
ExpectedFiles(es) ==
  IF es = <<>> THEN <<>> ELSE EntryFiles(Head(es)) \o ExpectedFiles(Tail(es))

ArgumentEntries == IF argument.k = "list" THEN argument.items ELSE <<argument>>

IsPrefix(a, b) == Len(a) <= Len(b) /\ a = SubSeq(b, 1, Len(a))

\* C13 as stated: with glob off every entry is opened as it is given, as one
\* source.
C13_Verbatim ==
  ~glob => IsPrefix(opener.yielded, ArgumentEntries)

\* C13 (amended): the opener yields the entries' files in the caller's order
\* of the entries, the matches of a path entry in ascending order of their
\* names whatever order the listing has them in when glob is on, and the
\* entry itself, as one file, when glob is off. Glob on or off, a path that
\* begins with ~ is expanded first: the ~ and the user name after it are
\* replaced by the home directory of that user (HOME, or the password
\* database's, for the user running the scan; the password database's for a
\* named user), and the path is taken as given if no home directory is
\* known. The opener stops early only when glob is off and the entry it has
\* come to names no file, or when the user name after the ~ holds a null
\* character or a lone surrogate.
C13_OpeningOrder ==
  LET expected == ExpectedFiles(ArgumentEntries) IN
  /\ IsPrefix(opener.yielded, expected)
  /\ opener.state = "exhausted" => opener.yielded = expected
  /\ opener.state = "raised" =>
       \/ /\ ~glob
          /\ opener.err = ErrNotFound
          /\ ~Unlookupable(ArgumentEntries[opener.i].path)
          /\ expected[Len(opener.yielded) + 1].path \notin OnDisk
       \/ /\ Unlookupable(ArgumentEntries[opener.i].path)
          /\ opener.err = IF ArgumentEntries[opener.i].path = TildeSur
                          THEN ErrSurrogate ELSE ErrNullByte
          /\ opener.yielded = ExpectedFiles(SubSeq(ArgumentEntries, 1, opener.i - 1))

\* the listing had ~x before b before a9 before a10 before B and the
\* password database the user root; the opener, given ~root/b and then the
\* pattern *, has yielded /root/b, then B, a10, a9, b and ~x
C13_Witness ==
  /\ glob
  /\ argument = ListOf(<<PathEntry(TildeRootB), PathEntry(Star)>>)
  /\ listing[Star] = <<TildeX, <<98>>, <<97, 57>>, <<97, 49, 48>>, <<66>>>>
  /\ opener.state = "exhausted"
  /\ opener.yielded =
       <<PathEntry(RootHome \o <<47, 98>>), PathEntry(<<66>>),
         PathEntry(<<97, 49, 48>>), PathEntry(<<97, 57>>), PathEntry(<<98>>),
         PathEntry(TildeX)>>

\* source k is the first source that differs from the committed schema
FirstDiffers(k) == Differs(k) /\ \A j \in 2..(k - 1) : ~Differs(j)

\* C14 as stated: the mismatch error carries the position of the offending
\* source counted from 1: index 2 when the second of three sources differs.
C14_IndexCountsFromOne ==
  \A p \in 1..MaxCalls : \A k \in 2..MaxSources :
    FirstDiffers(k) /\ gens[p].err.kind = ErrMismatch => gens[p].err.index = k

\* C14 (amended): the mismatch error carries the position of the offending
\* source among the opened files counted from 0, the first source being
\* "source 0": when the second of three sources differs the error names
\* index 1, and index 2 when the third does.
C14_IndexCountsFromZero ==
  \A p \in 1..MaxCalls : \A k \in 2..MaxSources :
    FirstDiffers(k) /\ gens[p].err.kind = ErrMismatch =>
      gens[p].err.index = k - 1

\* the second of three sources differs, and the error names index 1
C14_Witness ==
  \E p \in 1..MaxCalls :
    /\ Len(sources) = 3
    /\ FirstDiffers(2)
    /\ gens[p].pc = "failed"
    /\ gens[p].err = Raised(ErrMismatch, 1)

\* generator p runs with a positive batch size and a row limit, with or
\* without projection and predicate
FilterPass(p) ==
  /\ HasRun(p)
  /\ gens[p].pc \in {"suspended", "done", "closed"}
  /\ queries[p].n_rows # Nothing
  /\ ChunkSize(queries[p], kwargs) > 0

\* the source rows the predicate of call p holds of, in source order
Matching(p) ==
  IF queries[p].predicate = None THEN AllRows
  ELSE SelectSeq(AllRows, LAMBDA r : Holds(queries[p].predicate, r))

\* C15 as stated: once a pass with limit L has yielded min(L, M) rows, M the
\* number of rows the predicate holds of, it pulls no further record.
C15_StopsAtMinOfLimitAndMatches ==
  [][\A p \in 1..Len(queries) :
       /\ gens[p].pc \in {"created", "suspended"}
       /\ queries[p].n_rows # Nothing
       /\ ChunkSize(queries[p], kwargs) > 0
       /\ Len(RowsOut(p)) = Min(queries[p].n_rows.v, Len(Matching(p)))
       => Pulled(gens'[p].readers.log) = Pulled(gens[p].readers.log)]_vars

\* what a pass with predicate and limit L has yielded: frames of the
\* projected columns whose rows are, together, a prefix of the matching rows
\* of at most L rows; the budget is L less the rows yielded; every chunk
\* pulled made one frame, empty if none of its rows matched or L is 0; a
\* pass that has ended has yielded the first min(L, M) matching rows
C15_Yielded ==
  \A p \in 1..MaxCalls :
    FilterPass(p) =>
      LET L == queries[p].n_rows.v
          M == Len(Matching(p))
          B == ChunkSize(queries[p], kwargs)
          out == gens[p].out
      IN  /\ RowsOut(p) = SubSeq(Matching(p), 1, Len(RowsOut(p)))
          /\ Len(RowsOut(p)) <= Min(L, M)
          /\ gens[p].n_rows = Some(L - Len(RowsOut(p)))
          /\ \A i \in 1..Len(out) :
                /\ queries[p].with_columns # Nothing =>
                     out[i].columns = queries[p].with_columns.v
                /\ \A j \in 1..Len(out[i].rows) :
                     Holds(queries[p].predicate, out[i].rows[j])
          /\ Len(out) = (Pulled(gens[p].readers.log) + B - 1) \div B
          /\ gens[p].pc = "done" => Len(RowsOut(p)) = Min(L, M)

\* a pass suspended at a yield that left the budget at zero ends at its
\* next resumption, without a pull or a yield
C15_Stops ==
  \A p \in 1..MaxCalls :
    gens[p].pc = "suspended" /\ gens[p].n_rows = Some(0) =>
      /\ gens'[p].pc \in {"suspended", "done", "closed"}
      /\ gens'[p].out = gens[p].out
      /\ gens'[p].readers.log \in
           {gens[p].readers.log, Finalize(gens[p].readers).log}

\* C15 (amended): per batch the predicate is applied before the row limit,
\* so the budget is decremented only by rows that passed the predicate and
\* survived the cut: with predicate p and limit L a pass yields exactly the
\* first min(L, M) matching rows in source order, a batch none of whose rows
\* match being yielded empty. Reading stops once a yielded batch has left
\* the budget at zero; a pass with fewer than L matching rows reads every
\* source to its end, and one with L = 0 still pulls the first chunk and
\* yields one empty batch.
C15_FilterThenLimit == []C15_Yielded /\ [][C15_Stops]_vars

\* the limit was met by the third batch, the second being empty for want of
\* a matching row, with rows of the sources left unread
C15_Witness ==
  \E p \in 1..MaxCalls :
    /\ FilterPass(p)
    /\ queries[p].predicate = Some("idx_is_odd")
    /\ queries[p].n_rows = Some(2)
    /\ gens[p].pc = "done"
    /\ Len(gens[p].out) = 3
    /\ gens[p].out[2].rows = <<>>
    /\ Len(RowsOut(p)) = 2
    /\ Pulled(gens[p].readers.log) < Len(AllRows)

\* the reader chains there are: those of the generators, the retained one
\* and those the exceptions of get_schema hold
Chains ==
  {gens[p].readers : p \in 1..MaxCalls}
    \cup (IF opened_readers # Nothing THEN {opened_readers.v} ELSE {})
    \cup {held[n] : n \in 1..MaxSchemaCalls}

\* the records a chain has pulled, in the order of the pulls
PulledRows(log) ==
  LET pulls == SelectSeq(log, LAMBDA e : e[1] = "pull")
  IN  [n \in 1..Len(pulls) |-> Rec(pulls[n][2], pulls[n][3])]

\* the pulls of source i among the first n events of a log
PullsBefore(log, n, i) ==
  Cardinality({m \in 1..n : log[m][1] = "pull" /\ log[m][2] = i})

\* C16: in a pass source i+1 is opened only when every row of source i has
\* been pulled and, as the step before, the file of source i has been
\* closed, so a pass holds at most one file open; the records come in the
\* order of the sources, all of source i before any of source j > i, and so
\* do the rows of the batches, which may span the boundary of two sources.
C16_Sequential ==
  /\ \A c \in Chains :
       /\ Cardinality(c.open) <= 1
       /\ PulledRows(c.log) = SubSeq(AllRows, 1, Pulled(c.log))
       /\ \A n \in 1..Len(c.log) :
            c.log[n][1] = "open" =>
              IF c.log[n][2] = 1 THEN n = 1
              ELSE /\ c.log[n - 1] = <<"close", c.log[n][2] - 1>>
                   /\ PullsBefore(c.log, n, c.log[n][2] - 1)
                        = sources[c.log[n][2] - 1].nrows
  /\ \A p \in 1..MaxCalls : \A a, b \in 1..Len(RowsOut(p)) :
       a < b =>
         \/ RowsOut(p)[a].src < RowsOut(p)[b].src
         \/ /\ RowsOut(p)[a].src = RowsOut(p)[b].src
            /\ RowsOut(p)[a].idx < RowsOut(p)[b].idx

\* a batch holds the last row of the first source and the first row of the
\* second, the first file having been closed before the second was opened
C16_Witness ==
  \E p \in 1..MaxCalls : \E i \in 1..Len(gens[p].out) :
    /\ Len(gens[p].out[i].rows) = 2
    /\ gens[p].out[i].rows[1] = Rec(1, sources[1].nrows)
    /\ gens[p].out[i].rows[2] = Rec(2, 1)
    /\ SubSeq(gens[p].readers.log, Len(gens[p].readers.log) - 2,
              Len(gens[p].readers.log))
         = <<<<"close", 1>>, <<"open", 2>>, <<"pull", 2, 1>>>>

\* source k, not the first, translates to a schema or a singleton flag other
\* than those of the first source
LaterDiffers(k) ==
  /\ k \in 2..Len(sources)
  /\ Translated(1).ok /\ Translated(k).ok
  /\ \/ Translated(k).schema # Translated(1).schema
     \/ Translated(k).singleton # Translated(1).singleton

\* the rows of the sources before source k
RowsBefore(k) == Len(RowsUpTo(k - 1))

\* the schema request looks at the first source alone; a pass that failed on
\* a mismatch at source k had pulled every row of the sources before it, had
\* just opened source k, and had not met its limit
C17_State ==
  /\ schema_calls > 0 /\ Len(sources) > 0 /\ Translated(1).ok =>
       /\ schema = Some(Translated(1).schema)
       /\ schema_ret = Return(Translated(1).schema)
  /\ opened_readers # Nothing => opened_readers.v.log = <<<<"open", 1>>>>
  /\ schema_ret.kind = "raise" => schema_ret.err # ErrMismatch
  /\ \A p \in 1..MaxCalls :
       gens[p].err.kind = ErrMismatch =>
         LET k == gens[p].err.index + 1
             log == gens[p].readers.log
         IN  /\ LaterDiffers(k)
             /\ \A j \in 2..(k - 1) : ~LaterDiffers(j)
             /\ Pulled(log) = RowsBefore(k)
             /\ \E n \in 1..Len(log) :
                  /\ log[n] = <<"open", k>>
                  /\ \A m \in (n + 1)..Len(log) : log[m] = <<"close", k>>
             /\ \A i \in 1..Len(gens[p].out) : \A j \in 1..Len(gens[p].out[i].rows) :
                  gens[p].out[i].rows[j].src < k
             /\ gens[p].n_rows # Some(0)

\* a pass whose limit a yielded batch has met ends at its next resumption,
\* whatever the sources it has not come to
C17_Step ==
  \A p \in 1..MaxCalls :
    gens[p].pc = "suspended" /\ gens[p].n_rows = Some(0) =>
      /\ gens'[p].pc \in {"suspended", "done", "closed"}
      /\ gens'[p].err = NoErr
      /\ gens'[p].readers.log \in
           {gens[p].readers.log, Finalize(gens[p].readers).log}

\* C17: the schema request opens and translates the first source alone and
\* succeeds whatever the later sources are; the mismatch of source k is
\* raised by the pass that comes to source k, every row of the sources
\* before it pulled, batches of those rows possibly yielded already; a pass
\* whose limit is met before it comes to source k ends without an error.
C17_LazyCheck == []C17_State /\ [][C17_Step]_vars

\* over the same sources, the second differing from the first: the schema
\* request succeeded, one pass ended on its limit with no error, and another
\* failed on the mismatch after it had yielded a batch
C17_Witness ==
  \E p, q \in 1..MaxCalls :
    /\ LaterDiffers(2)
    /\ schema_ret.kind = "return"
    /\ gens[p].pc = "done" /\ gens[p].n_rows = Some(0) /\ Len(RowsOut(p)) = 1
    /\ gens[q].pc = "failed" /\ gens[q].err = Raised(ErrMismatch, 1)
    /\ gens[q].out # <<>>

\* the iterator is retained only with a schema committed; schema and
\* singleton flag are committed together, from the first source; a schema
\* request that raised has committed nothing, and none raises the internal
\* error of line 208
C18_Cells ==
  /\ opened_readers # Nothing => schema # Nothing /\ singleton # Nothing
  /\ schema # Nothing <=> singleton # Nothing
  /\ schema # Nothing =>
       /\ schema.v = Translated(1).schema
       /\ singleton.v = Translated(1).singleton
  /\ schema_calls > 0 /\ schema_ret.kind = "raise" =>
       /\ schema = Nothing /\ singleton = Nothing /\ opened_readers = Nothing
       /\ schema_ret.err \in {ErrEmpty, ErrTopLevel}
  /\ schema_ret.err # ErrReadersNoSchema

\* schema and singleton flag, once committed, stay as they are, and the
\* iterator is put in its cell only by the step that commits them
C18_Step ==
  /\ schema # Nothing => schema' = schema /\ singleton' = singleton
  /\ opened_readers = Nothing /\ opened_readers' # Nothing =>
       schema = Nothing /\ schema' # Nothing /\ singleton' # Nothing

\* C18: in every reachable state of the closure a retained iterator implies a
\* committed schema; schema and singleton flag are set together and never
\* change once set; a schema request that fails leaves schema, singleton
\* flag and iterator unset; the internal error "schema not set but readers
\* is" is never raised.
C18_RetainedImpliesSchema == []C18_Cells /\ [][C18_Step]_vars

\* a schema request over a source that is no record, with no name to wrap it
\* under, was made twice and failed twice: the source was opened twice, and
\* the three cells are unset
C18_Witness ==
  /\ schema_calls = 2
  /\ schema_ret = Raise(ErrTopLevel)
  /\ file_opens[1] = 2
  /\ schema = Nothing /\ singleton = Nothing /\ opened_readers = Nothing

\* the source rows as the passes yield them: under the wrap name if the
\* schema is a singleton
WrappedRows == IF singleton # Nothing THEN Wrap(singleton.v, AllRows) ELSE AllRows

\* the outcome of a pass that has ended by itself
Ended(p) == gens[p].pc \in {"done", "failed"} /\ gens[p].err.kind # ErrNoSchema

\* C19: every batch-production call made after the schema phase makes a
\* pass of its own from the first row of the first source, whether it took
\* the retained iterator or opened the sources anew, and whatever became of
\* the calls before it: what it has pulled and yielded is a prefix of the
\* source rows, a pass without limit that has ended has yielded them all,
\* and two passes of the same arguments that have ended have yielded the
\* same batches and ended the same way.
C19_IndependentPasses ==
  /\ \A p \in 1..MaxCalls :
       HasRun(p) =>
         /\ Head(gens[p].readers.log) = <<"open", 1>>
         /\ PulledRows(gens[p].readers.log)
              = SubSeq(AllRows, 1, Pulled(gens[p].readers.log))
         /\ RowsOut(p) = SubSeq(WrappedRows, 1, Len(RowsOut(p)))
         /\ gens[p].pc = "done" /\ queries[p].n_rows = Nothing =>
              RowsOut(p) = WrappedRows
  /\ \A p, q \in 1..MaxCalls :
       HasRun(p) /\ HasRun(q) /\ queries[p] = queries[q] =>
         /\ IsPrefix(gens[p].out, gens[q].out) \/ IsPrefix(gens[q].out, gens[p].out)
         /\ Ended(p) /\ Ended(q) =>
              /\ gens[p].out = gens[q].out
              /\ gens[p].pc = gens[q].pc
              /\ gens[p].err = gens[q].err

\* the call that took the retained iterator was dropped after its first
\* batch; a later call of the same arguments opened the sources anew and
\* yielded every row, from the first
C19_Witness ==
  \E p, q \in 1..MaxCalls :
    /\ gens[p].retained /\ gens[p].pc = "closed" /\ Len(gens[p].out) = 1
    /\ ~gens[q].retained /\ gens[q].pc = "done"
    /\ queries[p] = queries[q]
    /\ Len(AllRows) >= 2
    /\ RowsOut(q) = WrappedRows
    /\ gens[q].out[1] = gens[p].out[1]

====
